---- MODULE Spec2Model ----
(***************************************************************************)
(* New Tabinator: the recent-domains tracker of src/src/newtab.js.         *)
(*                                                                         *)
(* Strings are modelled by their structure.  A URL string is the record of *)
(* its scheme, its host (the sequence of dot-separated labels, as typed)   *)
(* and the rest; a string without a scheme does not parse.  A domain is    *)
(* the sequence of its labels.  The text stored under RECENT_DOMAINS is    *)
(* modelled by the JSON value it spells.                                   *)
(*                                                                         *)
(* Page instances share one localStorage.  A page's shortcut strip is      *)
(* rendered[p]; the #recent-domains container is taken to be present.      *)
(* The four settings keys are modelled as stored; what the page paints     *)
(* from them (prompt text, body background) is not.                        *)
(***************************************************************************)
EXTENDS Integers, Sequences, FiniteSets, TLC

VARIABLES
    store,      \* localStorage[newtabinator_recent_domains], as a text
    now,        \* the last value Date.now() returned to a click
    pc,         \* per page: "closed", "pending" (awaiting history.search), "done"
    cached,     \* per page: the local `cached` of initRecentDomainsFromHistory
    rendered,   \* per page: the records shown in the #recent-domains container
    err,        \* per page: an exception left a handler or the async function uncaught
    steps,      \* number of loads, clicks, resets, settings changes and faults so far
    last,       \* history variable: the last operation that wrote the store
    storage,    \* whether localStorage works: "ok", "full", "denied"
    settings    \* localStorage under the four settings keys

vars == <<store, now, pc, cached, rendered, err, steps, last, storage, settings>>

\* ---------------------------------------------------------------- bounds
MaxSteps == 4

Pages == {"A", "B"}

\* ------------------------------------------------------------- constants
MAX_RECENT_DOMAINS == 5

\* ------------------------------------------------------------------ URLs
Url(scheme, host, path) == [scheme |-> scheme, host |-> host, path |-> path]

NotAUrl == Url("", <<>>, "not a url")

\* String.prototype.toLowerCase on one label (the URL parser lower-cases hosts).
Lower(l) ==
    CASE l = "WWW" -> "www"
      [] l = "A" -> "a"
      [] l = "COM" -> "com"
      [] l = "Example" -> "example"
      [] OTHER -> l

\* new URL(url).hostname; the constructor throws when the string has no scheme.
Parses(url) == url.scheme # ""

Hostname(url) == [i \in 1..Len(url.host) |-> Lower(url.host[i])]

\* Mutant: every leading "www." is removed.
RECURSIVE ReplaceWww_All(_)
ReplaceWww_All(h) == IF Len(h) > 1 /\ h[1] = "www" THEN ReplaceWww_All(Tail(h)) ELSE h

\* hostname.replace(/^www\./, ''): one leading "www." is removed, when there is
\* a dot after it.
ReplaceWww(h) == IF Len(h) > 1 /\ h[1] = "www" THEN Tail(h) ELSE h

Null == [null |-> TRUE, labels |-> <<>>]
Str(labels) == [null |-> FALSE, labels |-> labels]

extractDomain(url) ==
    IF Parses(url) THEN Str(ReplaceWww(Hostname(url))) ELSE Null

\* !domain: null and the empty string are falsy.
Falsy(v) == v.null \/ v.labels = <<>>

\* domain.includes('chrome') || domain.includes('newtab') || domain === 'localhost'
LabelsWithChrome == {"chrome", "chromereviews"}
LabelsWithNewtab == {"newtab"}

IsInternal(d) ==
    \/ \E i \in 1..Len(d) : d[i] \in LabelsWithChrome
    \/ \E i \in 1..Len(d) : d[i] \in LabelsWithNewtab
    \/ d = <<"localhost">>

\* Mutant: the host is spelled with www. in the url.
CanonicalUrl_Www(d) == Url("https", <<"www">> \o d, "")

\* `https://${domain}`
CanonicalUrl(d) == Url("https", d, "")

DomainRecord(d, t) == [domain |-> d, url |-> CanonicalUrl(d), timestamp |-> t]

\* domain.split('.'): the labels; the empty string splits into one empty part.
Split(d) == IF d = <<>> THEN <<"">> ELSE d

\* Mutant: the first part is returned.
getDomainDisplayName_First(d) == Split(d)[1]

\* getDomainDisplayName; a domain of one part is that part.
getDomainDisplayName(d) ==
    LET parts == Split(d) IN
    IF Len(parts) > 1 THEN parts[Len(parts) - 1] ELSE parts[1]

\* ------------------------------------------------------- stored texts
Text(kind, items) == [kind |-> kind, items |-> items]

Absent == Text("absent", <<>>)          \* getItem returns null
EmptyList == Text("array", <<>>)

\* JSON.stringify of an array of records
JSONstringify(list) == Text("array", list)

IsArray(v) == v.kind = "array"

\* localStorage while it works ("ok"), while it is out of quota ("full":
\* setItem throws) and while access to it is refused ("denied": getItem,
\* setItem and removeItem throw).
StorageModes == {"ok", "full", "denied"}

\* What localStorage.getItem does on the stored text st: it returns it, or
\* throws.
Threw == Text("threw", <<>>)
getItem(st, mode) == IF mode = "denied" THEN Threw ELSE st

\* What is stored after localStorage.setItem(key, new), where st was stored.
setItem(st, new, mode) == IF mode = "ok" THEN new ELSE st

\* What is stored after localStorage.removeItem(key), where st was stored;
\* `none` is the absent value.
removeItem(st, none, mode) == IF mode = "denied" THEN st ELSE none

\* Mutant: getItem is called outside the try block, so what it throws is not
\* turned into [].
getRecentDomains_NoCatch(st) ==
    IF st.kind \in {"absent", "empty"} THEN EmptyList
    ELSE IF st.kind = "unparsable" THEN EmptyList
    ELSE st

\* getRecentDomains, on what getItem did: [] when nothing (or the empty
\* string) is stored, when getItem throws or when JSON.parse throws, the
\* parsed value otherwise, whatever its type.
getRecentDomains(st) ==
    IF st.kind \in {"absent", "empty"} THEN EmptyList
    ELSE IF st.kind \in {"unparsable", "threw"} THEN EmptyList
    ELSE st

\* saveRecentDomains: the text it hands to setItem.
saveRecentDomains(list) == JSONstringify(list)

\* ------------------------------------------------------ list helpers
Min(a, b) == IF a < b THEN a ELSE b

\* Array.prototype.slice(0, n)
Slice(list, n) == SubSeq(list, 1, Min(n, Len(list)))

\* domains.filter(d => d.domain !== domain)
FilterOut(list, d) == SelectSeq(list, LAMBDA r : r.domain # d)

DomainsOf(list) == {list[i].domain : i \in 1..Len(list)}

\* ------------------------------------------------- addToRecentDomains
\* The handler's effect on the stored text: `wrote` when it reached
\* saveRecentDomains and renderRecentDomains, `throws` when domains.filter is
\* not a function (the stored value parsed to something that is no array).
Outcome(st, wrote, throws) == [store |-> st, wrote |-> wrote, throws |-> throws]

\* Mutant: the existing entry of the domain is not removed.
addToRecentDomains_NoFilter(st, url, t) ==
    LET domain == extractDomain(url) IN
    IF Falsy(domain) THEN Outcome(st, FALSE, FALSE)
    ELSE IF IsInternal(domain.labels) THEN Outcome(st, FALSE, FALSE)
    ELSE LET domains == getRecentDomains(st) IN
         IF ~IsArray(domains) THEN Outcome(st, FALSE, TRUE)
         ELSE LET unshifted == <<DomainRecord(domain.labels, t)>> \o domains.items
                  trimmed == Slice(unshifted, MAX_RECENT_DOMAINS)
              IN  Outcome(saveRecentDomains(trimmed), TRUE, FALSE)

\* Mutant: a domain that is already listed is left where it is, as it is.
addToRecentDomains_KeepsOld(st, url, t) ==
    LET domain == extractDomain(url) IN
    IF Falsy(domain) THEN Outcome(st, FALSE, FALSE)
    ELSE IF IsInternal(domain.labels) THEN Outcome(st, FALSE, FALSE)
    ELSE LET domains == getRecentDomains(st) IN
         IF ~IsArray(domains) THEN Outcome(st, FALSE, TRUE)
         ELSE IF domain.labels \in DomainsOf(domains.items)
              THEN Outcome(saveRecentDomains(domains.items), TRUE, FALSE)
         ELSE LET unshifted == <<DomainRecord(domain.labels, t)>> \o domains.items
                  trimmed == Slice(unshifted, MAX_RECENT_DOMAINS)
              IN  Outcome(saveRecentDomains(trimmed), TRUE, FALSE)

\* Mutant: the sequence is not cut to MAX_RECENT_DOMAINS.
addToRecentDomains_NoSlice(st, url, t) ==
    LET domain == extractDomain(url) IN
    IF Falsy(domain) THEN Outcome(st, FALSE, FALSE)
    ELSE IF IsInternal(domain.labels) THEN Outcome(st, FALSE, FALSE)
    ELSE LET domains == getRecentDomains(st) IN
         IF ~IsArray(domains) THEN Outcome(st, FALSE, TRUE)
         ELSE LET filtered == FilterOut(domains.items, domain.labels)
                  unshifted == <<DomainRecord(domain.labels, t)>> \o filtered
              IN  Outcome(saveRecentDomains(unshifted), TRUE, FALSE)

\* Mutant: the new record is pushed to the end instead of unshifted.
addToRecentDomains_Pushes(st, url, t) ==
    LET domain == extractDomain(url) IN
    IF Falsy(domain) THEN Outcome(st, FALSE, FALSE)
    ELSE IF IsInternal(domain.labels) THEN Outcome(st, FALSE, FALSE)
    ELSE LET domains == getRecentDomains(st) IN
         IF ~IsArray(domains) THEN Outcome(st, FALSE, TRUE)
         ELSE LET filtered == FilterOut(domains.items, domain.labels)
                  pushed == filtered \o <<DomainRecord(domain.labels, t)>>
                  trimmed == Slice(pushed, MAX_RECENT_DOMAINS)
              IN  Outcome(saveRecentDomains(trimmed), TRUE, FALSE)

addToRecentDomains(st, url, t) ==
    LET domain == extractDomain(url) IN
    IF Falsy(domain) THEN Outcome(st, FALSE, FALSE)
    ELSE IF IsInternal(domain.labels) THEN Outcome(st, FALSE, FALSE)
    ELSE LET domains == getRecentDomains(st) IN
         IF ~IsArray(domains) THEN Outcome(st, FALSE, TRUE)
         ELSE LET filtered == FilterOut(domains.items, domain.labels)
                  unshifted == <<DomainRecord(domain.labels, t)>> \o filtered
                  trimmed == Slice(unshifted, MAX_RECENT_DOMAINS)
              IN  Outcome(saveRecentDomains(trimmed), TRUE, FALSE)

\* ------------------------------------------------ renderRecentDomains
\* The container is emptied, then one link per record is appended;
\* domains.forEach throws after the container was emptied when the stored
\* value is no array.
Shown(st) ==
    LET domains == getRecentDomains(st) IN
    IF IsArray(domains) THEN domains.items ELSE <<>>

RenderThrows(st) == ~IsArray(getRecentDomains(st))

\* ---------------------------------------- initRecentDomainsFromHistory
Item(url, t) == [url |-> url, time |-> t, hasTime |-> TRUE]
ItemNoTime(url) == [url |-> url, time |-> 0, hasTime |-> FALSE]

\* item.lastVisitTime || 0
VisitTime(item) == IF item.hasTime THEN item.time ELSE 0

\* Mutant: the first visit seen of a domain is kept, whatever its time.
RECURSIVE Reduce_KeepsFirst(_, _)
Reduce_KeepsFirst(items, map) ==
    IF items = <<>> THEN map
    ELSE LET item == Head(items)
             domain == extractDomain(item.url)
         IN  IF Falsy(domain) THEN Reduce_KeepsFirst(Tail(items), map)
             ELSE IF IsInternal(domain.labels) THEN Reduce_KeepsFirst(Tail(items), map)
             ELSE LET d == domain.labels
                      at == {i \in 1..Len(map) : map[i].domain = d}
                      visitTime == VisitTime(item)
                  IN  IF at = {}
                      THEN Reduce_KeepsFirst(Tail(items),
                                             Append(map, DomainRecord(d, visitTime)))
                      ELSE Reduce_KeepsFirst(Tail(items), map)

\* Mutant: the loop does not skip internal domains.
RECURSIVE Reduce_KeepsInternal(_, _)
Reduce_KeepsInternal(items, map) ==
    IF items = <<>> THEN map
    ELSE LET item == Head(items)
             domain == extractDomain(item.url)
         IN  IF Falsy(domain) THEN Reduce_KeepsInternal(Tail(items), map)
             ELSE LET d == domain.labels
                      at == {i \in 1..Len(map) : map[i].domain = d}
                      visitTime == VisitTime(item)
                  IN  IF at = {}
                      THEN Reduce_KeepsInternal(Tail(items),
                                                Append(map, DomainRecord(d, visitTime)))
                      ELSE LET i == CHOOSE i \in at : TRUE IN
                           IF visitTime > map[i].timestamp
                           THEN Reduce_KeepsInternal(Tail(items),
                                       [map EXCEPT ![i] = DomainRecord(d, visitTime)])
                           ELSE Reduce_KeepsInternal(Tail(items), map)

\* The for-loop over historyItems; the Map is the sequence of its values in
\* insertion order (Map.set on an existing key keeps the key's place).
RECURSIVE Reduce(_, _)
Reduce(items, map) ==
    IF items = <<>> THEN map
    ELSE LET item == Head(items)
             domain == extractDomain(item.url)
         IN  IF Falsy(domain) THEN Reduce(Tail(items), map)
             ELSE IF IsInternal(domain.labels) THEN Reduce(Tail(items), map)
             ELSE LET d == domain.labels
                      at == {i \in 1..Len(map) : map[i].domain = d}
                      visitTime == VisitTime(item)
                  IN  IF at = {}
                      THEN Reduce(Tail(items), Append(map, DomainRecord(d, visitTime)))
                      ELSE LET i == CHOOSE i \in at : TRUE IN
                           IF visitTime > map[i].timestamp
                           THEN Reduce(Tail(items),
                                       [map EXCEPT ![i] = DomainRecord(d, visitTime)])
                           ELSE Reduce(Tail(items), map)

\* .sort((a, b) => b.timestamp - a.timestamp): a stable sort, greatest first.
RECURSIVE InsertDesc(_, _)
InsertDesc(r, s) ==
    IF s = <<>> THEN <<r>>
    ELSE IF Head(s).timestamp >= r.timestamp
         THEN <<Head(s)>> \o InsertDesc(r, Tail(s))
         ELSE <<r>> \o s

RECURSIVE SortDesc(_)
SortDesc(list) ==
    IF list = <<>> THEN <<>>
    ELSE InsertDesc(list[Len(list)], SortDesc(SubSeq(list, 1, Len(list) - 1)))

\* Mutant: the candidates are cut to MAX_RECENT_DOMAINS before they are sorted.
FromHistory_SliceFirst(items) ==
    SortDesc(Slice(Reduce(items, <<>>), MAX_RECENT_DOMAINS))

FromHistory(items) == Slice(SortDesc(Reduce(items, <<>>)), MAX_RECENT_DOMAINS)

\* for (const histItem of fromHistory) { if (!cachedDomains.has(..) && ..) push }
RECURSIVE MergeLoop(_, _, _)
MergeLoop(fromHistory, cachedDomains, merged) ==
    IF fromHistory = <<>> THEN merged
    ELSE LET histItem == Head(fromHistory) IN
         IF histItem.domain \notin cachedDomains /\ Len(merged) < MAX_RECENT_DOMAINS
         THEN MergeLoop(Tail(fromHistory), cachedDomains, Append(merged, histItem))
         ELSE MergeLoop(Tail(fromHistory), cachedDomains, merged)

\* Mutant: the merge appends without looking at the capacity.
Merged_NoCapacity(cachedList, items) ==
    cachedList \o SelectSeq(FromHistory(items),
                            LAMBDA r : r.domain \notin DomainsOf(cachedList))

\* Mutant: the merge appends without looking at the domains already cached.
Merged_NoDedup(cachedList, items) ==
    MergeLoop(FromHistory(items), {}, cachedList)

Merged(cachedList, items) ==
    MergeLoop(FromHistory(items), DomainsOf(cachedList), cachedList)

\* What chrome.history.search settles to.
Rejected == [kind |-> "reject", items |-> <<>>]
NoResult == [kind |-> "null", items |-> <<>>]
Result(items) == [kind |-> "items", items |-> items]

\* cached.length >= MAX_RECENT_DOMAINS; the length of a value that is no array
\* is undefined (object, number) or the short string's, and the test is false.
\* Mutant: > for >=.
CacheFull_Strict(v) == IsArray(v) /\ Len(v.items) > MAX_RECENT_DOMAINS

CacheFull(v) == IsArray(v) /\ Len(v.items) >= MAX_RECENT_DOMAINS

\* The function up to its await or early return, on the stored text st:
\* where it stands afterwards, its local `cached`, whether it rendered and
\* whether it threw.
Begun(at, c, renders, throws) ==
    [at |-> at, cached |-> c, renders |-> renders, throws |-> throws]

Begin(st, api) ==
    LET c == getRecentDomains(st) IN
    IF ~api THEN Begun("unavailable", EmptyList, TRUE, RenderThrows(st))
    ELSE IF c.kind = "null"
         THEN Begun("threw", EmptyList, FALSE, TRUE)    \* null.length, before the try
    ELSE IF CacheFull(c) THEN Begun("skipped", EmptyList, TRUE, RenderThrows(st))
    ELSE Begun("pending", c, FALSE, FALSE)

\* !historyItems || historyItems.length === 0
NothingToImport(o) == o.kind = "null" \/ o.items = <<>>

\* The function after the await, on the stored text st, its local `cached` c and
\* the provider's answer o: where it ends, the text stored afterwards, whether
\* it wrote, rendered and threw.  cached.map throws into the catch block when
\* c is no array.  Every path renders, from the text then stored.
Settled(at, st, wrote, renders) ==
    [at |-> at, store |-> st, wrote |-> wrote, renders |-> renders,
     throws |-> renders /\ RenderThrows(st)]

\* Mutant: when the search fails the function asks again.
Settle_Retries(st, c, o) ==
    IF o.kind = "reject" THEN Settled("pending", st, FALSE, FALSE)
    ELSE IF NothingToImport(o) THEN Settled("empty", st, FALSE, TRUE)
    ELSE IF ~IsArray(c) THEN Settled("failed", st, FALSE, TRUE)
    ELSE Settled("merged", saveRecentDomains(Merged(c.items, o.items)), TRUE, TRUE)

\* Mutant: the catch block logs and does not render.
Settle_SilentCatch(st, c, o) ==
    IF o.kind = "reject" THEN Settled("failed", st, FALSE, FALSE)
    ELSE IF NothingToImport(o) THEN Settled("empty", st, FALSE, TRUE)
    ELSE IF ~IsArray(c) THEN Settled("failed", st, FALSE, FALSE)
    ELSE Settled("merged", saveRecentDomains(Merged(c.items, o.items)), TRUE, TRUE)

Settle(st, c, o) ==
    IF o.kind = "reject" THEN Settled("failed", st, FALSE, TRUE)
    ELSE IF NothingToImport(o) THEN Settled("empty", st, FALSE, TRUE)
    ELSE IF ~IsArray(c) THEN Settled("failed", st, FALSE, TRUE)
    ELSE Settled("merged", saveRecentDomains(Merged(c.items, o.items)), TRUE, TRUE)

\* ------------------------------------------ what the history provider holds
Site(l) == Url("https", <<l, "com">>, "/")

\* Several visits of one domain, spelled differently, one of them without a
\* visit time, among entries that are internal, have no host or do not parse.
HistA ==
    << Item(Url("https", <<"WWW", "A", "COM">>, "/path"), 1),
       Item(Url("http", <<"a", "com">>, ":8080/?q=1"), 2),
       ItemNoTime(Url("https", <<"a", "com">>, "/x")),
       Item(NotAUrl, 2),
       Item(Url("file", <<>>, "/home/notes.txt"), 2),
       Item(Url("chrome", <<"newtab">>, "/"), 2),
       Item(Url("http", <<"localhost">>, "/"), 2) >>

HistBC == << Item(Site("b"), 3), ItemNoTime(Site("c")) >>

\* Six eligible domains, oldest first.
HistSix ==
    << Item(Site("a"), 0), Item(Site("b"), 0), Item(Site("c"), 1),
       Item(Site("d"), 1), Item(Site("e"), 2), Item(Site("f"), 2) >>

\* A host with two leading www labels, and a third-party domain whose name
\* contains "chrome".
HistWww ==
    << Item(Url("https", <<"www", "www", "a", "com">>, "/"), 2),
       Item(Url("https", <<"chromereviews", "com">>, "/"), 1) >>

Histories == {<<>>, HistA, HistBC, HistSix, HistWww}

SearchOutcomes == {Rejected, NoResult} \cup {Result(h) : h \in Histories}

\* ------------------------------------------------------------ settings
\* The keys of STORAGE_KEYS other than RECENT_DOMAINS.
SettingsKeys == {"PROMPT", "BG_TYPE", "BG_COLOR", "BG_IMAGE"}

\* What is stored under a key, or a value read back: null or a string.
JsNull == [null |-> TRUE, value |-> ""]
JsString(v) == [null |-> FALSE, value |-> v]

NoSettings == [k \in SettingsKeys |-> JsNull]

\* DEFAULTS, and the null applyBackground passes for the image.
DEFAULTS ==
    [PROMPT |-> JsString("What is the most important thing that needs to get done today?"),
     BG_TYPE |-> JsString("color"),
     BG_COLOR |-> JsString("#fafafa"),
     BG_IMAGE |-> JsNull]

\* getStoredValue(key, defaultValue), where `value` is stored under the key.
getStoredValue(value, defaultValue, mode) ==
    IF mode = "denied" THEN defaultValue
    ELSE IF ~value.null THEN value ELSE defaultValue

\* setStoredValue(key, value) and removeStoredValue(key) on all the settings.
setStoredValue(all, key, value, mode) ==
    [all EXCEPT ![key] = setItem(all[key], JsString(value), mode)]

removeStoredValue(all, key, mode) ==
    [all EXCEPT ![key] = removeItem(all[key], JsNull, mode)]

\* What applyPrompt and applyBackground read.
ReadBack(all, mode) == [k \in SettingsKeys |-> getStoredValue(all[k], DEFAULTS[k], mode)]

\* String.prototype.trim on what the prompt input holds.
Trim(text) == IF text = "  " THEN "" ELSE text

PromptInputs == {"  ", "Ship the release"}
Colors == {"#000000"}
ImageData == "data:image/png;base64,iVBORw0KGgo="

\* ------------------------------------------------------------- the machine
\* pc[p] is where page p's initRecentDomainsFromHistory stands: "closed" (no
\* page), "pending" (at the await), or the exit it took: "unavailable",
\* "skipped", "threw", "failed", "empty", "merged".
Exits == {"unavailable", "skipped", "threw", "failed", "empty", "merged"}

\* `last` describes the last operation that reached a write of the store: the
\* operation ("click", "merge", "reset", or "... failed" when the write threw),
\* for a click the domain upserted, the time, and how many clicks in a row
\* upserted it; for a merge the history entries merged; how many domains the
\* write dropped from the persisted sequence, how many settings keys a reset
\* cleared, and for a click the page it was on and the page of the click
\* before it.
NoWrite ==
    [op |-> "none", dom |-> <<>>, at |-> 0, run |-> 0, h |-> <<>>,
     dropped |-> 0, cleared |-> 0,
     by |-> "", prevBy |-> ""]
WroteClick(d, t, run, dropped) ==
    [op |-> "click", dom |-> d, at |-> t, run |-> run, h |-> <<>>,
     dropped |-> dropped, cleared |-> 0,
     by |-> "", prevBy |-> ""]
WroteMerge(h, dropped) ==
    [op |-> "merge", dom |-> <<>>, at |-> 0, run |-> 0, h |-> h,
     dropped |-> dropped, cleared |-> 0,
     by |-> "", prevBy |-> ""]
WroteReset(dropped, cleared) ==
    [op |-> "reset", dom |-> <<>>, at |-> 0, run |-> 0, h |-> <<>>,
     dropped |-> dropped, cleared |-> cleared,
     by |-> "", prevBy |-> ""]
WriteFailed(op) ==
    [op |-> op, dom |-> <<>>, at |-> 0, run |-> 0, h |-> <<>>,
     dropped |-> 0, cleared |-> 0,
     by |-> "", prevBy |-> ""]

\* The write w was a click on page p, and came after the write prev: `by` is
\* the page, `prevBy` the page of prev when prev was a click too.
ClickedBy(w, p, prev) ==
    [w EXCEPT !.by = p, !.prevBy = IF prev.op = "click" THEN prev.by ELSE ""]

\* The domains of the sequence stored as `old` that the one stored as `new`
\* no longer has.
Dropped(old, new) == Cardinality(DomainsOf(Shown(old)) \ DomainsOf(Shown(new)))

Init ==
    /\ store = Absent
    /\ now = 2
    /\ pc = [p \in Pages |-> "closed"]
    /\ cached = [p \in Pages |-> EmptyList]
    /\ rendered = [p \in Pages |-> <<>>]
    /\ err = [p \in Pages |-> FALSE]
    /\ steps = 0
    /\ last = NoWrite
    /\ storage = "ok"
    /\ settings = NoSettings

\* The page is opened or reloaded: a fresh document, whose script runs to the
\* await of initRecentDomainsFromHistory or to its early return.  `api` is
\* whether chrome.history.search exists.
Load(p, api) ==
    /\ steps < MaxSteps
    /\ steps' = steps + 1
    /\ LET seen == getItem(store, storage)
           b == Begin(seen, api)
       IN  /\ pc' = [pc EXCEPT ![p] = b.at]
           /\ cached' = [cached EXCEPT ![p] = b.cached]
           /\ rendered' = [rendered EXCEPT ![p] = IF b.renders THEN Shown(seen) ELSE <<>>]
           /\ err' = [err EXCEPT ![p] = b.throws]
    /\ UNCHANGED <<store, now, last, storage, settings>>

\* chrome.history.search settles with o: the rest of
\* initRecentDomainsFromHistory runs, on the `cached` read before the await.
\* The text it saves is stored unless setItem throws; the strip is rendered
\* from what getItem does afterwards.
Resolve(p, o) ==
    /\ pc[p] = "pending"
    /\ LET r == Settle(store, cached[p], o) IN
       /\ store' = IF r.wrote THEN setItem(store, r.store, storage) ELSE store
       /\ pc' = [pc EXCEPT ![p] = r.at]
       /\ rendered' = [rendered EXCEPT
                         ![p] = IF r.renders THEN Shown(getItem(store', storage))
                                ELSE rendered[p]]
       /\ err' = [err EXCEPT
                    ![p] = err[p] \/ (r.renders /\ RenderThrows(getItem(store', storage)))]
       /\ last' = IF ~r.wrote THEN last
                  ELSE IF storage = "ok" THEN WroteMerge(o.items, Dropped(store, store'))
                  ELSE WriteFailed("merge failed")
    /\ cached' = [cached EXCEPT ![p] = EmptyList]
    /\ UNCHANGED <<now, steps, storage, settings>>

\* Mutant: the upsert works on the sequence the page last rendered, not on the
\* one it reads from the store.
Click_FromStrip(p, i, t) ==
    /\ pc[p] # "closed"
    /\ i \in 1..Len(rendered[p])
    /\ steps < MaxSteps
    /\ steps' = steps + 1
    /\ t = now + 1
    /\ now' = t
    /\ LET url == rendered[p][i].url
           d == extractDomain(url).labels
           r == addToRecentDomains(JSONstringify(rendered[p]), url, t)
       IN  /\ store' = IF r.wrote THEN setItem(store, r.store, storage) ELSE store
           /\ last' = IF ~r.wrote THEN last
                      ELSE IF storage = "ok"
                      THEN ClickedBy(WroteClick(d, t,
                                                IF last.op = "click" /\ last.dom = d
                                                THEN Min(last.run + 1, 2) ELSE 1,
                                                Dropped(store, store')),
                                     p, last)
                      ELSE WriteFailed("click failed")
           /\ err' = [err EXCEPT
                        ![p] = \/ err[p]
                               \/ r.throws
                               \/ r.wrote /\ RenderThrows(getItem(store', storage))]
           /\ rendered' = [rendered EXCEPT
                             ![p] = IF r.wrote THEN Shown(getItem(store', storage))
                                    ELSE rendered[p]]
    /\ UNCHANGED <<pc, cached, storage, settings>>

\* The i-th shortcut of page p is clicked at time t: the listener calls
\* addToRecentDomains with the link's url.  (The link then navigates the tab
\* unless it was opened elsewhere; a tab that left is a page Load opens anew.)
\* Two clicks do not fall into the same millisecond.
Click(p, i, t) ==
    /\ pc[p] # "closed"
    /\ i \in 1..Len(rendered[p])
    /\ steps < MaxSteps
    /\ steps' = steps + 1
    /\ t = now + 1
    /\ now' = t
    /\ LET url == rendered[p][i].url
           d == extractDomain(url).labels
           r == addToRecentDomains(getItem(store, storage), url, t)
       IN  /\ store' = IF r.wrote THEN setItem(store, r.store, storage) ELSE store
           /\ last' = IF ~r.wrote THEN last
                      ELSE IF storage = "ok"
                      THEN ClickedBy(WroteClick(d, t,
                                                IF last.op = "click" /\ last.dom = d
                                                THEN Min(last.run + 1, 2) ELSE 1,
                                                Dropped(store, store')),
                                     p, last)
                      ELSE WriteFailed("click failed")
           /\ err' = [err EXCEPT
                        ![p] = \/ err[p]
                               \/ r.throws
                               \/ r.wrote /\ RenderThrows(getItem(store', storage))]
           /\ rendered' = [rendered EXCEPT
                             ![p] = IF r.wrote THEN Shown(getItem(store', storage))
                                    ELSE rendered[p]]
    /\ UNCHANGED <<pc, cached, storage, settings>>

\* Mutant: the reset removes the settings keys and leaves RECENT_DOMAINS.
Reset_KeepsRecent(p, confirmed) ==
    /\ pc[p] # "closed"
    /\ IF confirmed THEN
            /\ steps < MaxSteps
            /\ steps' = steps + 1
            /\ store' = store
            /\ settings' = [k \in SettingsKeys |-> removeItem(settings[k], JsNull, storage)]
            /\ rendered' = [rendered EXCEPT ![p] = Shown(getItem(store', storage))]
            /\ last' = IF storage = "denied" THEN WriteFailed("reset failed")
                       ELSE WroteReset(Dropped(store, store'),
                                       Cardinality({k \in SettingsKeys : ~settings[k].null}))
       ELSE UNCHANGED <<store, settings, rendered, last, steps>>
    /\ UNCHANGED <<now, pc, cached, err, storage>>

\* handleReset: every key is removed when the confirm dialog is accepted
\* (removeStoredValue swallows what removeItem throws), and the strip is
\* rendered again.
Reset(p, confirmed) ==
    /\ pc[p] # "closed"
    /\ IF confirmed THEN
            /\ steps < MaxSteps
            /\ steps' = steps + 1
            /\ store' = removeItem(store, Absent, storage)
            /\ settings' = [k \in SettingsKeys |-> removeItem(settings[k], JsNull, storage)]
            /\ rendered' = [rendered EXCEPT ![p] = Shown(getItem(store', storage))]
            /\ last' = IF storage = "denied" THEN WriteFailed("reset failed")
                       ELSE WroteReset(Dropped(store, store'),
                                       Cardinality({k \in SettingsKeys : ~settings[k].null}))
       ELSE UNCHANGED <<store, settings, rendered, last, steps>>
    /\ UNCHANGED <<now, pc, cached, err, storage>>

Next ==
    \E p \in Pages :
        \/ \E api \in BOOLEAN : Load(p, api)
        \/ \E o \in SearchOutcomes : Resolve(p, o)
        \/ \E i \in 1..MAX_RECENT_DOMAINS : Click(p, i, now + 1)
        \/ \E confirmed \in BOOLEAN : Reset(p, confirmed)

Spec == Init /\ [][Next]_vars

\* The machine with a history provider that answers every search: a page that
\* awaits chrome.history.search does not await it forever.  The provider fails,
\* has nothing, or holds one of two histories.
LiveOutcomes == {Rejected, NoResult, Result(HistA), Result(HistBC)}

NextLive ==
    \E p \in Pages :
        \/ \E api \in BOOLEAN : Load(p, api)
        \/ \E o \in LiveOutcomes : Resolve(p, o)
        \/ \E i \in 1..MAX_RECENT_DOMAINS : Click(p, i, now + 1)
        \/ \E confirmed \in BOOLEAN : Reset(p, confirmed)

Answers == \A p \in Pages : WF_vars(\E o \in LiveOutcomes : Resolve(p, o))

SpecLive == Init /\ [][NextLive]_vars /\ Answers

\* The same machine started on a stored value that is no serialized sequence:
\* text JSON.parse rejects, or the text of an object, a number, a string, null.
CorruptTexts ==
    {Text(k, <<>>) : k \in {"unparsable", "object", "number", "string", "null"}}

InitCorrupt ==
    /\ store \in CorruptTexts
    /\ now = 2
    /\ pc = [p \in Pages |-> "closed"]
    /\ cached = [p \in Pages |-> EmptyList]
    /\ rendered = [p \in Pages |-> <<>>]
    /\ err = [p \in Pages |-> FALSE]
    /\ steps = 0
    /\ last = NoWrite
    /\ storage = "ok"
    /\ settings = NoSettings

SpecCorrupt == InitCorrupt /\ [][Next]_vars

\* ------------------------------------------------- localStorage failing
\* localStorage starts or stops failing: the quota is reached or freed, access
\* is refused or granted.
Fault(mode) ==
    /\ mode # storage
    /\ steps < MaxSteps
    /\ steps' = steps + 1
    /\ storage' = mode
    /\ UNCHANGED <<store, now, pc, cached, rendered, err, last, settings>>

NextFail ==
    \/ Next
    \/ \E mode \in StorageModes : Fault(mode)

SpecFail == Init /\ [][NextFail]_vars

\* ------------------------------------------------- the settings handlers
\* handlePromptChange
PromptChange(p, input) ==
    /\ pc[p] # "closed"
    /\ steps < MaxSteps
    /\ steps' = steps + 1
    /\ LET newPrompt == IF Trim(input) = "" THEN DEFAULTS.PROMPT.value ELSE Trim(input)
       IN  settings' = setStoredValue(settings, "PROMPT", newPrompt, storage)
    /\ UNCHANGED <<store, now, pc, cached, rendered, err, last, storage>>

\* handleBgTypeChange
BgTypeChange(p, colorChecked) ==
    /\ pc[p] # "closed"
    /\ steps < MaxSteps
    /\ steps' = steps + 1
    /\ LET bgType == IF colorChecked THEN "color" ELSE "image"
       IN  settings' = setStoredValue(settings, "BG_TYPE", bgType, storage)
    /\ UNCHANGED <<store, now, pc, cached, rendered, err, last, storage>>

\* handleColorChange
ColorChange(p, color) ==
    /\ pc[p] # "closed"
    /\ steps < MaxSteps
    /\ steps' = steps + 1
    /\ settings' = setStoredValue(setStoredValue(settings, "BG_COLOR", color, storage),
                                  "BG_TYPE", "color", storage)
    /\ UNCHANGED <<store, now, pc, cached, rendered, err, last, storage>>

\* handleImageUpload, at reader.onload, for a file that passed the checks
ImageUpload(p) ==
    /\ pc[p] # "closed"
    /\ steps < MaxSteps
    /\ steps' = steps + 1
    /\ settings' = setStoredValue(setStoredValue(settings, "BG_IMAGE", ImageData, storage),
                                  "BG_TYPE", "image", storage)
    /\ UNCHANGED <<store, now, pc, cached, rendered, err, last, storage>>

\* handleClearImage
ClearImage(p) ==
    /\ pc[p] # "closed"
    /\ steps < MaxSteps
    /\ steps' = steps + 1
    /\ settings' = setStoredValue(removeStoredValue(settings, "BG_IMAGE", storage),
                                  "BG_TYPE", "color", storage)
    /\ UNCHANGED <<store, now, pc, cached, rendered, err, last, storage>>

NextSettings ==
    \/ Next
    \/ \E p \in Pages :
        \/ \E input \in PromptInputs : PromptChange(p, input)
        \/ \E colorChecked \in BOOLEAN : BgTypeChange(p, colorChecked)
        \/ \E color \in Colors : ColorChange(p, color)
        \/ ImageUpload(p)
        \/ ClearImage(p)

SpecSettings == Init /\ [][NextSettings]_vars

\* createDomainElement: the labels of the links page p shows.
Labels(p) == [i \in 1..Len(rendered[p]) |-> getDomainDisplayName(rendered[p][i].domain)]

\* The recent-domains sequence the stored text holds.
Cache == Shown(store)

\* ================================================================ claims
Full == Len(Cache) = MAX_RECENT_DOMAINS

\* Page p's import settles in this step.
Settles(p) == \E o \in SearchOutcomes : Resolve(p, o)

\* Page p's import settles in this step by merging and writing.
Merges(p) == \E o \in SearchOutcomes : Resolve(p, o) /\ Settle(store, cached[p], o).wrote

IsPrefix(s, t) == Len(s) <= Len(t) /\ SubSeq(t, 1, Len(s)) = s

Occurrences(list, d) == Cardinality({i \in 1..Len(list) : list[i].domain = d})

\* C1: the recent-domains sequence never holds more than N = 5 records.
C1_AtMostN == Len(Cache) <= MAX_RECENT_DOMAINS

\* A click upserted into a cache that then holds N records.
C1_Witness == last.op = "click" /\ Full

\* C2: no two records of the recent-domains sequence have the same domain.
C2_NoDuplicateDomains ==
    \A i, j \in 1..Len(Cache) : i # j => Cache[i].domain # Cache[j].domain

\* A history with a domain that was already cached (a.com, first imported with
\* visit time 2 from several entries) was merged, and filled the cache.
C2_Witness ==
    /\ last.op = "merge" /\ last.h = HistSix /\ Full
    /\ Cache[1] = DomainRecord(<<"a", "com">>, 2)

\* C3 (as claimed): when a click has upserted a domain after page p read its
\* `cached` and before p's history query settles, then after p's import the
\* clicked record is at index 0 with the click's timestamp.
C3_ClickSurvivesImport ==
    [][\A p \in Pages :
          (Settles(p) /\ last.op = "click" /\ cached[p] # getRecentDomains(store))
              => /\ Cache' # <<>>
                 /\ Cache'[1].domain = last.dom
                 /\ Cache'[1].timestamp = last.at]_vars

\* C4 (as claimed): a merge keeps the sequence persisted just before it as a
\* prefix of the sequence persisted after it, and what it appends are domains
\* that were absent, appended only below capacity.
C4_MergeOnlyAppends ==
    [][\A p \in Pages :
          Merges(p)
              => /\ IsPrefix(Cache, Cache')
                 /\ \A i \in (Len(Cache) + 1)..Len(Cache') :
                        Cache'[i].domain \notin DomainsOf(Cache)
                 /\ Len(Cache') <= MAX_RECENT_DOMAINS]_vars

\* C5 (as claimed): a click on the shortcut of a domain that is in the cache
\* moves that domain's record to index 0 with the click time, keeps the length
\* and keeps the other records in their order.
C5_ClickPromotes ==
    [][\A p \in Pages, i \in 1..MAX_RECENT_DOMAINS :
          (Click(p, i, now + 1) /\ rendered[p][i].domain \in DomainsOf(Cache))
              => /\ Cache' # <<>>
                 /\ Cache'[1].domain = rendered[p][i].domain
                 /\ Cache'[1].timestamp = now'
                 /\ Len(Cache') = Len(Cache)
                 /\ Tail(Cache') = FilterOut(Cache, rendered[p][i].domain)]_vars

\* URLs handed to two upserts in a row: spellings of a.com (with a path, with
\* www., in capitals, canonical) and another domain.
UpsertUrls ==
    { Url("https", <<"WWW", "A", "COM">>, "/path"), Url("http", <<"a", "com">>, "/"),
      CanonicalUrl(<<"a", "com">>), CanonicalUrl(<<"www", "a", "com">>),
      Site("b"), CanonicalUrl(<<"b", "com">>) }

\* The cache after upsert(u, t) and then upsert(u2, t2) on the stored text st.
UpsertedTwice(st, u, t, u2, t2) ==
    Shown(addToRecentDomains(addToRecentDomains(st, u, t).store, u2, t2).store)

\* C6: after two upserts in a row of one domain, the second at time t', the
\* cache holds exactly one record of the domain, at index 0, with timestamp t':
\* for the clicks that happened, and for any two URLs of one domain upserted
\* into the cache as it stands.
C6_UpsertTwice ==
    /\ (last.op = "click" /\ last.run = 2)
           => /\ Occurrences(Cache, last.dom) = 1
              /\ Cache[1].domain = last.dom
              /\ Cache[1].timestamp = last.at
    /\ \A u, u2 \in UpsertUrls :
           extractDomain(u) = extractDomain(u2)
               => LET d == extractDomain(u).labels
                      after == UpsertedTwice(store, u, now + 1, u2, now + 2)
                  IN  /\ Occurrences(after, d) = 1
                      /\ after[1].domain = d
                      /\ after[1].timestamp = now + 2

\* Two clicks in a row upserted one domain, among other records.
C6_Witness == last.op = "click" /\ last.run = 2 /\ Len(Cache) > 1

\* The stored text after one more page load whose history query answers with
\* the entries h.
ImportAgain(st, h) ==
    LET b == Begin(st, TRUE) IN
    IF b.at = "pending" THEN Settle(st, b.cached, Result(h)).store ELSE st

\* C7: once a merge has written, importing the same history entries again
\* changes nothing.
C7_MergeIdempotent ==
    last.op = "merge" => ImportAgain(store, last.h) = store

\* A merge appended to a non-empty cache and left it below capacity.
C7_Witness ==
    /\ last.op = "merge" /\ last.h = HistBC
    /\ Len(Cache) = 3 /\ Cache[1].domain = <<"a", "com">>

\* C8: a page load that finds N records skips the import: no history query is
\* pending afterwards, nothing is written, and the strip shows the cache.
C8_FullCacheSkipsImport ==
    [][/\ \A p \in Pages : pc[p] = "pending" => Len(cached[p].items) < MAX_RECENT_DOMAINS
       /\ \A p \in Pages :
            (Load(p, TRUE) /\ Full)
                => /\ pc'[p] = "skipped"
                   /\ store' = store /\ last' = last
                   /\ rendered'[p] = Cache]_vars

\* A page was loaded on a full cache and skipped the import.
C8_Witness == \E p \in Pages : pc[p] = "skipped" /\ Full /\ rendered[p] = Cache

\* C9: without the provider, and when its query fails or answers with nothing,
\* the store is left as it is, nothing is thrown, and the strip shows the cache.
C9_ImportDegrades ==
    [][\A p \in Pages :
          (\/ Load(p, FALSE)
           \/ \E o \in {Rejected, NoResult, Result(<<>>)} : Resolve(p, o))
              => /\ store' = store /\ last' = last
                 /\ rendered'[p] = Cache
                 /\ ~err'[p]]_vars

\* A query failed on a page whose cache was not empty, and the page shows it.
C9_Witness ==
    \E p \in Pages : pc[p] = "failed" /\ Cache # <<>> /\ rendered[p] = Cache

\* C10 (as claimed): on a stored value that is no serialized sequence nothing
\* is thrown, and the import and the strip work on a sequence.
C10_CorruptReadsAsEmpty ==
    \A p \in Pages :
        /\ ~err[p]
        /\ pc[p] # "threw"
        /\ pc[p] = "pending" => IsArray(cached[p])

\* C11: storage failures are fail-soft.  While setItem throws and getItem works,
\* a click upsert and a history merge complete without an uncaught exception,
\* leave the persisted sequence as it was and render that sequence.  While
\* getItem throws too, the cache is read as the empty sequence: a load keeps
\* the empty sequence as `cached` and renders nothing or awaits the history,
\* and an upsert or merge leaves the store alone and renders the empty strip.
Upserts(p) == \E i \in 1..MAX_RECENT_DOMAINS : Click(p, i, now + 1)

C11_StorageFailSoft ==
    [][\A p \in Pages :
        /\ (storage = "full" /\ (Upserts(p) \/ Merges(p)))
              => /\ store' = store
                 /\ rendered'[p] = Shown(store)
                 /\ ~err'[p]
        /\ (storage = "denied" /\ (Upserts(p) \/ Settles(p)))
              => /\ store' = store
                 /\ rendered'[p] = <<>>
                 /\ ~err'[p]
        /\ (storage = "denied" /\ \E api \in BOOLEAN : Load(p, api))
              => /\ cached'[p] = EmptyList
                 /\ rendered'[p] = <<>>
                 /\ pc'[p] \in {"pending", "unavailable"}
                 /\ ~err'[p]
      ]_vars

\* A click upsert whose write threw, on a page that shows the sequence that
\* stayed stored.
C11_Witness ==
    \E p \in Pages :
        /\ last.op = "click failed"
        /\ storage = "full"
        /\ Cache # <<>>
        /\ rendered[p] = Cache
        /\ ~err[p]

\* C12: every record of the cache has a domain that is non-empty, lower-case
\* and without a leading "www." prefix.
LowerCase(d) == \A j \in 1..Len(d) : Lower(d[j]) = d[j]

StartsWithWww(d) == Len(d) > 1 /\ d[1] = "www"

C12_DomainsCanonical ==
    \A i \in 1..Len(Cache) :
        /\ Cache[i].domain # <<>>
        /\ LowerCase(Cache[i].domain)
        /\ ~StartsWithWww(Cache[i].domain)

\* C13: every record of the cache has url = "https://" + domain, whatever the
\* scheme, port, path and query of the URL it came from: in every reachable
\* state, and after an upsert of any URL into the cache as it stands.
C13_UrlIsHttpsDomain ==
    /\ \A i \in 1..Len(Cache) : Cache[i].url = Url("https", Cache[i].domain, "")
    /\ \A u \in UpsertUrls :
           LET r == addToRecentDomains(store, u, now + 1) IN
           r.wrote => Shown(r.store)[1].url = Url("https", Shown(r.store)[1].domain, "")

\* The import stored a.com from http://a.com:8080/?q=1, https://WWW.A.COM/path
\* and https://a.com/x.
C13_Witness ==
    /\ last.op = "merge"
    /\ last.h = HistA
    /\ <<"a", "com">> \in DomainsOf(Cache)

\* C14 as stated: in every reachable state no record at a later index has a
\* greater timestamp than a record at an earlier index.
Unordered(list) ==
    \E i, j \in 1..Len(list) : i < j /\ list[j].timestamp > list[i].timestamp

C14_OrderIsRecency == ~Unordered(Cache)

\* C14, amended: right after a click upsert the record at index 0 is the most
\* recent one: no record of the cache has a greater timestamp.  (A merge puts
\* history records behind the cached ones whatever their visit times.)
C14_ClickedIsMostRecent ==
    last.op = "click"
        => \A i \in 1..Len(Cache) : Cache[i].timestamp <= Cache[1].timestamp

\* A click put its record in front of a sequence that is not in timestamp
\* order.
C14_Witness == last.op = "click" /\ Unordered(Cache)

\* C15: no record of an internal domain (one that contains "chrome" or
\* "newtab", or is "localhost") and no record of a URL without a domain is in
\* the cache; an upsert of such a URL into the cache as it stands writes
\* nothing, and an import leaves such history entries out.
Eligible(url) ==
    LET domain == extractDomain(url) IN ~Falsy(domain) /\ ~IsInternal(domain.labels)

ExcludedUrls ==
    { NotAUrl,
      Url("file", <<>>, "/home/notes.txt"),
      Url("chrome", <<"newtab">>, "/"),
      Url("https", <<"newtab", "example", "com">>, "/"),
      Url("https", <<"chromereviews", "com">>, "/"),
      Url("http", <<"localhost">>, "/") }

C15_NoInternalRecords ==
    /\ \A i \in 1..Len(Cache) : Eligible(Cache[i].url) /\ Cache[i].domain # <<>>
    /\ \A i \in 1..Len(Cache) : ~IsInternal(Cache[i].domain)
    /\ \A u \in ExcludedUrls :
           /\ ~Eligible(u)
           /\ addToRecentDomains(store, u, now + 1) = Outcome(store, FALSE, FALSE)

\* An import stored records from a history that has entries to leave out.
C15_Witness ==
    /\ last.op = "merge"
    /\ \E k \in 1..Len(last.h) : ~Eligible(last.h[k].url)
    /\ Cache # <<>>

\* C16: the import reduces the history entries to one candidate per distinct
\* eligible domain, with the greatest visit time seen for the domain (0 for an
\* entry without one), in descending order of time; it offers them to the merge
\* in that order, the first MAX_RECENT_DOMAINS of them, so the records a merge
\* appends behind the cached ones are candidates in descending order of time.
EligibleDomains(h) ==
    {extractDomain(h[k].url).labels : k \in {k \in 1..Len(h) : Eligible(h[k].url)}}

Visits(h, d) ==
    {VisitTime(h[k]) : k \in {k \in 1..Len(h) : extractDomain(h[k].url) = Str(d)}}

LatestVisit(h, d) == CHOOSE t \in Visits(h, d) : \A t2 \in Visits(h, d) : t2 <= t

ReducedRight(h) ==
    LET candidates == SortDesc(Reduce(h, <<>>)) IN
    /\ DomainsOf(candidates) = EligibleDomains(h)
    /\ Len(candidates) = Cardinality(EligibleDomains(h))
    /\ \A i \in 1..Len(candidates) :
           candidates[i] = [domain |-> candidates[i].domain,
                            url |-> Url("https", candidates[i].domain, ""),
                            timestamp |-> LatestVisit(h, candidates[i].domain)]
    /\ ~Unordered(candidates)
    /\ IsPrefix(FromHistory(h), candidates)
    /\ Len(FromHistory(h)) = Min(Len(candidates), MAX_RECENT_DOMAINS)

AppendedRight(c, h, after) ==
    LET appended == SubSeq(after, Len(c) + 1, Len(after)) IN
    /\ IsPrefix(c, after)
    /\ ~Unordered(appended)
    /\ \A i \in 1..Len(appended) :
           /\ appended[i].domain \in EligibleDomains(h)
           /\ appended[i].timestamp = LatestVisit(h, appended[i].domain)

C16_ImportReduces ==
    [][\A p \in Pages : \A o \in SearchOutcomes :
           (Resolve(p, o) /\ Settle(store, cached[p], o).wrote)
               => /\ ReducedRight(o.items)
                  /\ AppendedRight(cached[p].items, o.items, Cache')]_vars

\* An import of six domains listed oldest first stored the five latest, latest
\* first.
C16_Witness ==
    /\ last.op = "merge"
    /\ last.h = HistSix
    /\ Len(Cache) = MAX_RECENT_DOMAINS
    /\ Cache[1].domain = <<"e", "com">>
    /\ Cache[5].domain = <<"a", "com">>

\* C17: extractDomain returns the host of the URL, lower-cased, with one leading
\* "www." removed, and null for a string that does not parse as an absolute
\* URL: "example.com" for "https://www.Example.COM/path", null for "not a url",
\* and so for the URLs of the history entries an import went through and for
\* the URLs upserts are tried with.
ExtractedRight(url) ==
    IF url.scheme = "" THEN extractDomain(url) = Null
    ELSE LET host == [i \in 1..Len(url.host) |-> Lower(url.host[i])] IN
         extractDomain(url) = Str(IF StartsWithWww(host) THEN Tail(host) ELSE host)

SampleUrls ==
    UpsertUrls \cup ExcludedUrls
        \cup { Url("https", <<"www", "Example", "COM">>, "/path"),
               Url("https", <<"www", "www", "a", "com">>, "/"),
               Url("https", <<"www">>, "/") }

C17_ExtractDomain ==
    /\ extractDomain(Url("https", <<"www", "Example", "COM">>, "/path"))
           = Str(<<"example", "com">>)
    /\ extractDomain(NotAUrl) = Null
    /\ \A url \in SampleUrls : ExtractedRight(url)
    /\ \A k \in 1..Len(last.h) : ExtractedRight(last.h[k].url)

\* An import went through https://WWW.A.COM/path and through a string that is
\* no URL, and stored a.com.
C17_Witness ==
    /\ last.op = "merge"
    /\ \E k \in 1..Len(last.h) : last.h[k].url = NotAUrl
    /\ \E k \in 1..Len(last.h) : last.h[k].url.host = <<"WWW", "A", "COM">>
    /\ <<"a", "com">> \in DomainsOf(Cache)

\* C18: a click upsert of a domain that is not in a full cache (5 records) puts
\* its record at index 0, drops the record that was last, and keeps the other
\* four in their order behind it.
C18_FullCacheEvictsTail ==
    [][\A p \in Pages : \A i \in 1..MAX_RECENT_DOMAINS :
           (/\ Click(p, i, now + 1)
            /\ Len(Cache) = 5
            /\ extractDomain(rendered[p][i].url).labels \notin DomainsOf(Cache))
               => /\ Len(Cache') = 5
                  /\ Cache'[1].domain = extractDomain(rendered[p][i].url).labels
                  /\ Cache'[1].timestamp = now'
                  /\ \A k \in 1..4 : Cache'[k + 1] = Cache[k]
                  /\ Cache[5].domain \notin DomainsOf(Cache')]_vars

\* A click upserted a domain into a full cache, which dropped one domain.
C18_Witness ==
    /\ last.op = "click"
    /\ last.dropped = 1
    /\ Len(Cache) = 5
    /\ Cache[1].domain = last.dom

\* C19: the strip is drawn again after every change of the cache: when a click
\* upsert, a history import (by any of its exits, also when it changed nothing)
\* or a confirmed reset has completed on a page, that page shows the persisted
\* sequence, in its order.
Exited(p) == \E api \in BOOLEAN : Load(p, api) /\ pc'[p] \in Exits

C19_StripFollowsCache ==
    [][\A p \in Pages :
           (Upserts(p) \/ Settles(p) \/ Exited(p) \/ Reset(p, TRUE))
               => rendered'[p] = Cache']_vars

\* A page whose import ended without anything to import shows the sequence a
\* click wrote.
C19_Witness ==
    \E p \in Pages :
        /\ pc[p] = "empty"
        /\ last.op = "click"
        /\ Cache # <<>>
        /\ rendered[p] = Cache

\* C20: a confirmed reset removes every persisted key: right after it the
\* cache is empty, the strip of the page is empty, and the settings read back
\* as the defaults (the default prompt sentence, background type color, color
\* #fafafa, no image).  A declined reset changes nothing.
C20_ResetRestoresDefaults ==
    [][\A p \in Pages :
        /\ Reset(p, TRUE)
              => /\ store' = Absent
                 /\ \A k \in SettingsKeys : settings'[k].null
                 /\ Cache' = <<>>
                 /\ rendered'[p] = <<>>
                 /\ ReadBack(settings', storage')
                        = [PROMPT |-> JsString("What is the most important thing that needs to get done today?"),
                           BG_TYPE |-> JsString("color"),
                           BG_COLOR |-> JsString("#fafafa"),
                           BG_IMAGE |-> JsNull]
        /\ Reset(p, FALSE) => UNCHANGED <<store, settings, rendered>>
      ]_vars

\* A reset removed a cache with records and three settings keys.
C20_Witness ==
    /\ last.op = "reset"
    /\ last.dropped > 0
    /\ last.cleared >= 3
    /\ store = Absent
    /\ settings = NoSettings

\* C21: a reset confirmed while a history query is pending is not undone by the
\* import: when an import completes and the last write of the store was a
\* reset, every domain then in the cache is one the history result supplies.
C21_ResetNotUndone ==
    [][\A p \in Pages : \A o \in SearchOutcomes :
           (Resolve(p, o) /\ last.op = "reset")
               => DomainsOf(Cache') \subseteq EligibleDomains(o.items)]_vars

\* C22: the url of every record of the cache gives back the record's domain
\* (extractDomain("https://" + d) = d), and a click on a shortcut never changes
\* which domains are in the cache.
C22_ClickKeepsDomains ==
    [][/\ \A i \in 1..Len(Cache) : extractDomain(Cache[i].url) = Str(Cache[i].domain)
       /\ \A p \in Pages : Upserts(p) => DomainsOf(Cache') = DomainsOf(Cache)]_vars

\* C23: cutting the ordered candidates to the MAX_RECENT_DOMAINS most recent
\* before the merge loses nothing: for a cache of fewer than 5 records (the
\* stored one, and the one a pending import holds) and every history result,
\* the merge yields what the merge of all the ordered candidates yields, and
\* its length is min(5, length of the cache + number of eligible history
\* domains absent from the cache).
MergedUncut(cachedList, items) ==
    MergeLoop(SortDesc(Reduce(items, <<>>)), DomainsOf(cachedList), cachedList)

\* Eight domains, oldest first.
HistEight ==
    << Item(Site("a"), 0), Item(Site("b"), 1), Item(Site("c"), 2), Item(Site("d"), 3),
       Item(Site("e"), 4), Item(Site("f"), 5), Item(Site("g"), 6), Item(Site("h"), 7) >>

CutLosesNothing(c) ==
    Len(c) < 5 =>
        \A h \in Histories \cup {HistEight} :
            /\ Merged(c, h) = MergedUncut(c, h)
            /\ Len(Merged(c, h))
                   = Min(5, Len(c) + Cardinality(EligibleDomains(h) \ DomainsOf(c)))

C23_CutLosesNothing ==
    /\ CutLosesNothing(Cache)
    /\ \A p \in Pages : pc[p] = "pending" => CutLosesNothing(cached[p].items)

\* An import of six domains into a cache of two of them appended the three
\* latest of the four others.
C23_Witness ==
    /\ last.op = "merge"
    /\ last.h = HistSix
    /\ Len(Cache) = 5
    /\ Cache[1].domain = <<"b", "com">>
    /\ Cache[2].domain = <<"c", "com">>
    /\ Cache[5].domain = <<"d", "com">>

\* C24: with two pages on one store, click upserts from both pages lose no
\* record other than by eviction from a full cache: every upsert works on the
\* sequence now stored, so when a click on one page upserts b right after a
\* click on the other page upserted a, b is at index 0 and a's record at
\* index 1.
LostBy(before, after) == DomainsOf(before) \ DomainsOf(after)

C24_TwoPagesKeepBoth ==
    [][\A q \in Pages : \A i \in 1..MAX_RECENT_DOMAINS :
           Click(q, i, now + 1) =>
               LET b == extractDomain(rendered[q][i].url).labels IN
               /\ LostBy(Cache, Cache') \subseteq
                      (IF Len(Cache) = 5 /\ b \notin DomainsOf(Cache)
                       THEN {Cache[5].domain} ELSE {})
               /\ (last.op = "click" /\ last.by # q /\ last.dom # b)
                      => /\ Cache'[1].domain = b
                         /\ Cache'[1].timestamp = now'
                         /\ Cache'[2].domain = last.dom
                         /\ Cache'[2] = Cache[1]]_vars

\* A click on one page upserted a domain right after a click on the other page
\* upserted another one, whose record is now at index 1.
C24_Witness ==
    /\ last.op = "click"
    /\ last.prevBy # ""
    /\ last.prevBy # last.by
    /\ Len(Cache) >= 2
    /\ Cache[1].domain = last.dom
    /\ Cache[2].domain # last.dom
    /\ Cache[2].timestamp = last.at - 1

\* C25: the import runs once per page load and finishes.  A page that awaits
\* the history search reaches an exit of the import on which the strip was
\* rendered; a search is awaited only by a page load, the answer ends the
\* import, and the store is written by an import only in the step that ends
\* it as "merged": one request and at most one write per load.
Done == Exits \ {"threw"}

C25_ImportFinishesOnce ==
    /\ \A p \in Pages : (pc[p] = "pending") ~> (pc[p] \in Done)
    /\ [][\A p \in Pages :
            /\ (pc[p] # "pending" /\ pc'[p] = "pending") => Load(p, TRUE)
            /\ Settles(p) => (pc[p] = "pending" /\ pc'[p] \in Done)
            /\ (pc[p] \in Exits /\ pc'[p] # pc[p]) => \E api \in BOOLEAN : Load(p, api)
          ]_vars
    /\ [][(last' # last /\ last'.op = "merge")
              => \E p \in Pages : Settles(p) /\ pc'[p] = "merged"]_vars

\* Both pages' imports are done, one of them by a merge the page then rendered.
C25_Witness ==
    /\ \A p \in Pages : pc[p] \in Done
    /\ last.op = "merge"
    /\ \E p \in Pages : pc[p] = "merged" /\ rendered[p] = Cache /\ Cache # <<>>

\* C26: the display label of a domain is its second-from-last dot-separated
\* segment when it has more than one segment, and the whole domain otherwise:
\* "example" for mail.example.co, "localhost" for localhost, and so for every
\* link a page shows.
C26_DisplayLabel ==
    /\ getDomainDisplayName(<<"mail", "example", "co">>) = "example"
    /\ getDomainDisplayName(<<"github", "com">>) = "github"
    /\ getDomainDisplayName(<<"localhost">>) = "localhost"
    /\ \A p \in Pages : \A i \in 1..Len(rendered[p]) :
           LET d == rendered[p][i].domain IN
           Labels(p)[i] = IF Len(d) > 1 THEN d[Len(d) - 1] ELSE d[1]

\* A page shows the link of www.a.com, labelled "a", beside other links.
C26_Witness ==
    \E p \in Pages : \E i \in 1..Len(rendered[p]) :
        /\ rendered[p][i].domain = <<"www", "a", "com">>
        /\ Labels(p)[i] = "a"
        /\ Len(rendered[p]) > 1

====
